---- MODULE Spec2Model ----
(***************************************************************************)
(* Triton-nanoGPT: the three Triton kernels (softmax, layer norm, GELU),   *)
(* their host wrappers, and the training script's NaN-skip and checkpoint  *)
(* handling, modelled from triton_train_nanoGPT.py.                        *)
(*                                                                         *)
(* Numbers.  The kernels compute in floating point.  The model computes    *)
(* the same expressions in exact arithmetic on extended rationals          *)
(* (finite rationals, +inf, -inf, NaN with the IEEE rules for them);       *)
(* rounding of finite results is outside the model.  Rationals carry       *)
(* arbitrary-precision numerators and denominators (sequences of base-10^4 *)
(* limbs, least significant first) so that the script's constants 1e-6,    *)
(* 1e-8, 1e-5, 0.044715 and 0.7978845608028654 are used as written.        *)
(***************************************************************************)
EXTENDS Integers, Sequences, FiniteSets, TLC

(***************************************************************************)
(* Arbitrary-precision naturals                                            *)
(***************************************************************************)
Base == 10^4

RECURSIVE BNat(_)
BNat(i) == IF i = 0 THEN <<>> ELSE <<i % Base>> \o BNat(i \div Base)

RECURSIVE BTrim(_)
BTrim(a) ==
    IF a = <<>> THEN <<>>
    ELSE IF a[Len(a)] = 0 THEN BTrim(SubSeq(a, 1, Len(a) - 1)) ELSE a

RECURSIVE BAddC(_, _, _)
BAddC(a, b, c) ==
    IF b = <<>> /\ c = 0 THEN a
    ELSE IF a = <<>> /\ c = 0 THEN b
    ELSE LET x == IF a = <<>> THEN 0 ELSE Head(a)
             y == IF b = <<>> THEN 0 ELSE Head(b)
             t == x + y + c
         IN  <<t % Base>> \o BAddC(IF a = <<>> THEN <<>> ELSE Tail(a),
                                   IF b = <<>> THEN <<>> ELSE Tail(b),
                                   t \div Base)

BAdd(a, b) == BAddC(a, b, 0)

\* a - b for a >= b
RECURSIVE BSubC(_, _, _)
BSubC(a, b, c) ==
    IF b = <<>> /\ c = 0 THEN a
    ELSE LET y == IF b = <<>> THEN 0 ELSE Head(b)
             t == Head(a) - y - c
         IN  <<IF t < 0 THEN t + Base ELSE t>>
                 \o BSubC(Tail(a), IF b = <<>> THEN <<>> ELSE Tail(b),
                          IF t < 0 THEN 1 ELSE 0)

BSub(a, b) == BTrim(BSubC(a, b, 0))

\* a * m + c for one limb m
RECURSIVE BMulS(_, _, _)
BMulS(a, m, c) ==
    IF a = <<>> THEN BNat(c)
    ELSE LET t == Head(a) * m + c
         IN  <<t % Base>> \o BMulS(Tail(a), m, t \div Base)

RECURSIVE BMul(_, _)
BMul(a, b) ==
    IF a = <<>> \/ b = <<>> THEN <<>>
    ELSE IF b = <<1>> THEN a
    ELSE IF a = <<1>> THEN b
    ELSE LET lo == IF Head(b) = 0 THEN <<>> ELSE BMulS(a, Head(b), 0)
             hi == BMul(a, Tail(b))
         IN  BAdd(lo, IF hi = <<>> THEN <<>> ELSE <<0>> \o hi)

\* -1, 0, 1 as a < b, a = b, a > b
RECURSIVE BCmpAt(_, _, _)
BCmpAt(a, b, i) ==
    IF i = 0 THEN 0
    ELSE IF a[i] < b[i] THEN -1
    ELSE IF a[i] > b[i] THEN 1
    ELSE BCmpAt(a, b, i - 1)

BCmp(a, b) ==
    IF Len(a) < Len(b) THEN -1
    ELSE IF Len(a) > Len(b) THEN 1
    ELSE BCmpAt(a, b, Len(a))

\* the natural whose decimal digits are the limbs, most significant first
RECURSIVE BRev(_)
BRev(a) == IF a = <<>> THEN <<>> ELSE BRev(Tail(a)) \o <<Head(a)>>

BDec(a) == BTrim(BRev(a))

(***************************************************************************)
(* Extended rationals: k is "fin" (s * n / d, s the sign), "pinf", "ninf", *)
(* "nan", or "uninit" for memory torch.empty_like allocated and nothing    *)
(* has written (its content is whatever the allocator left there).         *)
(***************************************************************************)
Fin(s, n, d) ==
    IF n = <<>> THEN [k |-> "fin", s |-> 0, n |-> <<>>, d |-> <<1>>]
    ELSE [k |-> "fin", s |-> s, n |-> n, d |-> d]

Special(kind) == [k |-> kind, s |-> 0, n |-> <<>>, d |-> <<1>>]

NaN == Special("nan")
PosInf == Special("pinf")
NegInf == Special("ninf")
Uninit == Special("uninit")

Abs(i) == IF i < 0 THEN -i ELSE i
Sgn(i) == IF i < 0 THEN -1 ELSE IF i > 0 THEN 1 ELSE 0

Int2Q(i) == Fin(Sgn(i), BNat(Abs(i)), <<1>>)
Frac(i, j) == Fin(Sgn(i), BNat(Abs(i)), BNat(j))

IsFin(a) == a.k = "fin"
IsInf(a) == a.k \in {"pinf", "ninf"}
\* the sign of a finite or infinite value
SignOf(a) == IF a.k = "pinf" THEN 1 ELSE IF a.k = "ninf" THEN -1 ELSE a.s
InfOf(s) == IF s < 0 THEN NegInf ELSE PosInf
\* a value that is not a number of any kind: NaN, or unwritten memory
Poison(a, b) ==
    IF a.k = "uninit" \/ b.k = "uninit" THEN Uninit ELSE NaN
IsPoison(a) == a.k \in {"nan", "uninit"}

QNeg(a) ==
    IF IsPoison(a) THEN a
    ELSE IF IsInf(a) THEN InfOf(-SignOf(a))
    ELSE Fin(-a.s, a.n, a.d)

QAdd(a, b) ==
    IF IsPoison(a) \/ IsPoison(b) THEN Poison(a, b)
    ELSE IF IsInf(a) /\ IsInf(b) THEN (IF a.k = b.k THEN a ELSE NaN)
    ELSE IF IsInf(a) THEN a
    ELSE IF IsInf(b) THEN b
    ELSE IF a.s = 0 THEN b
    ELSE IF b.s = 0 THEN a
    ELSE LET same == a.d = b.d
             an == IF same THEN a.n ELSE BMul(a.n, b.d)
             bn == IF same THEN b.n ELSE BMul(b.n, a.d)
             d == IF same THEN a.d ELSE BMul(a.d, b.d)
             c == BCmp(an, bn)
         IN  IF a.s = b.s THEN Fin(a.s, BAdd(an, bn), d)
             ELSE IF c = 0 THEN Fin(0, <<>>, <<1>>)
             ELSE IF c > 0 THEN Fin(a.s, BSub(an, bn), d)
             ELSE Fin(b.s, BSub(bn, an), d)

QSub(a, b) == QAdd(a, QNeg(b))

QMul(a, b) ==
    IF IsPoison(a) \/ IsPoison(b) THEN Poison(a, b)
    ELSE IF IsInf(a) \/ IsInf(b)
         THEN (IF SignOf(a) = 0 \/ SignOf(b) = 0 THEN NaN
               ELSE InfOf(SignOf(a) * SignOf(b)))
    ELSE Fin(a.s * b.s, BMul(a.n, b.n), BMul(a.d, b.d))

\* IEEE division; a zero divisor is +0 (no computation here yields -0)
QDiv(a, b) ==
    IF IsPoison(a) \/ IsPoison(b) THEN Poison(a, b)
    ELSE IF IsInf(a) THEN (IF IsInf(b) THEN NaN
                           ELSE InfOf(SignOf(a) * (IF b.s < 0 THEN -1 ELSE 1)))
    ELSE IF IsInf(b) THEN Fin(0, <<>>, <<1>>)
    ELSE IF b.s = 0 THEN (IF a.s = 0 THEN NaN ELSE InfOf(a.s))
    ELSE IF a.d = b.d THEN Fin(a.s * b.s, a.n, b.n)
    ELSE Fin(a.s * b.s, BMul(a.n, b.d), BMul(a.d, b.n))

\* a < b (false when either is not a number, as IEEE comparisons are)
QLt(a, b) ==
    IF IsPoison(a) \/ IsPoison(b) THEN FALSE
    ELSE IF a.k = "pinf" \/ b.k = "ninf" THEN FALSE
    ELSE IF a.k = "ninf" \/ b.k = "pinf" THEN TRUE
    ELSE QSub(a, b).s < 0

\* numeric equality (false when either is not a number)
QEq(a, b) ==
    IF IsPoison(a) \/ IsPoison(b) THEN FALSE
    ELSE IF IsInf(a) \/ IsInf(b) THEN a.k = b.k
    ELSE a.s = b.s /\ BMul(a.n, b.d) = BMul(b.n, a.d)

QAbs(a) == IF QLt(a, Int2Q(0)) THEN QNeg(a) ELSE a

\* a^i for i >= 0
RECURSIVE BPow(_, _)
BPow(a, i) == IF i = 0 THEN <<1>> ELSE BMul(a, BPow(a, i - 1))

(***************************************************************************)
(* exp on the integers (every logit the model draws is an integer, so is   *)
(* every difference the kernel exponentiates): powers of e taken to six    *)
(* decimals, with float32's overflow above 88 and underflow below -103.    *)
(***************************************************************************)
EXP_OVERFLOW == 88
EXP_UNDERFLOW == 103
E_NUM == BDec(<<271, 8282>>)
E_DEN == BNat(10^6)

QExp(a) ==
    IF IsPoison(a) THEN a
    ELSE IF a.k = "pinf" THEN PosInf
    ELSE IF a.k = "ninf" THEN Int2Q(0)
    ELSE LET i == IF a.n = <<>> THEN 0
                  ELSE IF Len(a.n) > 1 THEN Base ELSE a.n[1]
         IN  IF a.s >= 0
             THEN (IF i > EXP_OVERFLOW THEN PosInf
                   ELSE Fin(1, BPow(E_NUM, i), BPow(E_DEN, i)))
             ELSE (IF i > EXP_UNDERFLOW THEN Int2Q(0)
                   ELSE Fin(1, BPow(E_DEN, i), BPow(E_NUM, i)))

QMax2(a, b) ==
    IF IsPoison(a) \/ IsPoison(b) THEN Poison(a, b)
    ELSE IF QLt(a, b) THEN b ELSE a

\* the reductions tl.sum and tl.max over lanes lo..hi of f, pairwise as the
\* hardware reduces
RECURSIVE tl_sum(_, _, _)
tl_sum(f, lo, hi) ==
    IF lo = hi THEN f[lo]
    ELSE LET mid == (lo + hi) \div 2
         IN  QAdd(tl_sum(f, lo, mid), tl_sum(f, mid + 1, hi))

RECURSIVE tl_max(_, _, _)
tl_max(f, lo, hi) ==
    IF lo = hi THEN f[lo]
    ELSE LET mid == (lo + hi) \div 2
         IN  QMax2(tl_max(f, lo, mid), tl_max(f, mid + 1, hi))

\* torch.clamp(v, lo, hi): NaN stays NaN
clamp(v, lo, hi) ==
    IF IsPoison(v) THEN v
    ELSE IF QLt(v, lo) THEN lo
    ELSE IF QLt(hi, v) THEN hi
    ELSE v

cdiv(a, b) == (a + b - 1) \div b

RECURSIVE next_power_of_2_from(_, _)
next_power_of_2_from(n, p) ==
    IF p >= n THEN p ELSE next_power_of_2_from(n, 2 * p)

next_power_of_2(n) == next_power_of_2_from(n, 1)

(***************************************************************************)
(* Memory.  A buffer is a function from flat element offsets 0..size-1 to  *)
(* values.  tl.load at an offset outside the buffer reads whatever lies    *)
(* there (modelled as an unwritten cell); tl.store outside the buffer      *)
(* does not change the buffer.                                             *)
(***************************************************************************)
tl_load(buf, a) == IF a \in DOMAIN buf THEN buf[a] ELSE Uninit

\* buf after the stores st (a function from offsets to values)
tl_store(buf, st) ==
    [a \in DOMAIN buf |-> IF a \in DOMAIN st THEN st[a] ELSE buf[a]]

(***************************************************************************)
(* Bounds of the model                                                     *)
(***************************************************************************)
MaxRows == 2
MaxCols == 3
MaxTiles == 2
MaxEpochs == 2
MaxNaNBatches == 2

(***************************************************************************)
(* State                                                                   *)
(***************************************************************************)
VARIABLES
    pc,      \* "idle", "launched" (a grid is running), "returned", "raised"
    kernel,  \* "none", "softmax", "layer_norm", "gelu": the wrapper called
    x,       \* the tensor passed to forward, flattened
    clamped, \* TritonSoftmax.forward's x.clamp(-100, 100): its kernel's input
    weight,  \* TritonLayerNorm.weight
    bias,    \* TritonLayerNorm.bias
    y,       \* the buffer torch.empty_like allocated, which the kernel writes
    out,     \* the tensor TritonSoftmax.forward builds from y and returns
             \* (the other two wrappers return y itself)
    meta,    \* the launch's scalars: rows, cols, n, block, grid, eps
    ran,     \* the program instances of the grid that have run
    acc      \* per program instance that ran: its loads, stores and locals

kvars == <<pc, kernel, x, clamped, weight, bias, y, out, meta, ran, acc>>

\* the training script (train and the lines of __main__ after it)
VARIABLES
    tpc,           \* the statement the script is at
    num_epochs,    \* train's argument
    epoch,         \* the outer loop's index
    batch,         \* batches of this epoch begun
    iter_num,
    loss,          \* the current batch's loss: "none", "finite" or "nan"
    nan_batches,   \* batches so far whose loss was NaN
    grads,         \* the parameters' .grad: what it holds, from which iteration
    params,        \* the model's weights
    opt_state,     \* AdamW's per-parameter state: the steps it has taken
    sched_epochs,  \* scheduler.step() calls (they set the learning rate)
    mode,          \* "train" or "eval"
    val_batches,   \* validation batches of this epoch done
    best_val_loss,
    val_losses,
    epoch_params,  \* the weights at each epoch's validation (for the claims)
    saved_epochs,  \* the epochs (counted from 1) whose checkpoint was written
    files,         \* the checkpoint files: path -> weights or Absent
    have_dir       \* whether the directory train saves into exists

tvars == <<tpc, num_epochs, epoch, batch, iter_num, loss, nan_batches, grads,
           params, opt_state, sched_epochs, mode, val_batches, best_val_loss,
           val_losses, epoch_params, saved_epochs, files, have_dir>>

vars == <<kvars, tvars>>

NoMeta == [rows |-> 0, cols |-> 0, n |-> 0, block |-> 0, grid |-> 0,
           eps |-> Int2Q(0)]

KInit ==
    /\ pc = "idle"
    /\ kernel = "none"
    /\ x = <<>>
    /\ clamped = <<>>
    /\ weight = <<>>
    /\ bias = <<>>
    /\ y = <<>>
    /\ out = <<>>
    /\ meta = NoMeta
    /\ ran = {}
    /\ acc = <<>>

\* forward is called on a module at rest
CanCall == pc = "idle"

Lanes(BLOCK_SIZE) == 0 .. BLOCK_SIZE - 1

\* a program instance's record in acc
Ran(pid, rec) == [p \in ran \cup {pid} |-> IF p = pid THEN rec ELSE acc[p]]

(***************************************************************************)
(* softmax_kernel and TritonSoftmax.forward                                *)
(***************************************************************************)
SOFTMAX_KERNEL_EPS == Frac(1, 10^6)
SOFTMAX_WRAPPER_EPS == Frac(1, 10^8)
CLAMP_MIN == -100
CLAMP_MAX == 100

\* the logits the model draws
SoftmaxVals == {NegInf, Int2Q(-1000), Int2Q(-99), Int2Q(1000)}

\* a kernel without the mask: every lane is on
softmax_mask_all(c, n_cols) == TRUE

\* mask = col_offsets < n_cols, by lane
softmax_mask(c, n_cols) == c < n_cols

\* the grid lambda of TritonSoftmax.forward
softmax_grid(B) == B

\* one program instance: what it loads, and what it stores where
softmax_kernel(input, row_idx, input_row_stride, output_row_stride, n_cols, BLOCK_SIZE) ==
    LET col_offsets == Lanes(BLOCK_SIZE)
        mask == [c \in col_offsets |-> softmax_mask(c, n_cols)]
        input_row_ptr == [c \in col_offsets |-> row_idx * input_row_stride + c]
        output_row_ptr == [c \in col_offsets |->
                             row_idx * output_row_stride + c]
        logits0 == [c \in col_offsets |->
                      IF mask[c] THEN tl_load(input, input_row_ptr[c])
                      ELSE NegInf]
        max_logits == tl_max(logits0, 0, BLOCK_SIZE - 1)
        logits == [c \in col_offsets |-> QSub(logits0[c], max_logits)]
        exp_logits == [c \in col_offsets |-> QExp(logits[c])]
        sum_exp_logits == QAdd(tl_sum(exp_logits, 0, BLOCK_SIZE - 1),
                               SOFTMAX_KERNEL_EPS)
        softmax_output == [c \in col_offsets |->
                             QDiv(exp_logits[c], sum_exp_logits)]
        on == {c \in col_offsets : mask[c]}
    IN  [loads |-> {<<"x", input_row_ptr[c]>> : c \in on},
         stores |-> [a \in {output_row_ptr[c] : c \in on} |->
                       softmax_output[a - row_idx * output_row_stride]],
         mean |-> Int2Q(0), var |-> Int2Q(0)]

\* y.sum(dim=-1) of row r, and the wrapper's two lines after the launch
RowSum(t, r, N) == tl_sum([c \in 0 .. N - 1 |-> t[r * N + c]], 0, N - 1)

softmax_post(yk, B, N) ==
    LET y1 == [a \in DOMAIN yk |-> QAdd(yk[a], SOFTMAX_WRAPPER_EPS)]
    IN  [a \in DOMAIN yk |-> QDiv(y1[a], RowSum(y1, a \div N, N))]

\* a wrapper that passes x to the kernel as it is
softmax_clamp_none(t) == t

\* x = x.clamp(-100, 100)
softmax_clamp(t) ==
    [a \in DOMAIN t |-> clamp(t[a], Int2Q(CLAMP_MIN), Int2Q(CLAMP_MAX))]

\* forward up to and including the launch, on a [B, N] tensor that is fill
\* everywhere but at one place
TritonSoftmax_forward(B, N, fill, at, v) ==
    /\ CanCall
    /\ LET t == [a \in 0 .. (B * N) - 1 |-> IF a = at THEN v ELSE fill]
       IN  /\ x' = t
           /\ clamped' = softmax_clamp(t)
    /\ y' = [a \in 0 .. (B * N) - 1 |-> Uninit]
    /\ meta' = [NoMeta EXCEPT !.rows = B, !.cols = N, !.n = B * N,
                              !.block = next_power_of_2(N),
                              !.grid = softmax_grid(B)]
    /\ kernel' = "softmax"
    /\ pc' = "launched"
    /\ ran' = {}
    /\ acc' = <<>>
    /\ out' = <<>>
    /\ UNCHANGED <<weight, bias>>

\* program instance row_idx of the softmax grid runs
Run_softmax_kernel(row_idx) ==
    /\ pc = "launched"
    /\ kernel = "softmax"
    /\ row_idx \in (0 .. meta.grid - 1) \ ran
    /\ LET r == softmax_kernel(clamped, row_idx, meta.cols, meta.cols,
                               meta.cols, meta.block)
       IN  /\ y' = tl_store(y, r.stores)
           /\ acc' = Ran(row_idx, [r EXCEPT !.stores = DOMAIN r.stores])
    /\ ran' = ran \cup {row_idx}
    /\ UNCHANGED <<pc, kernel, x, clamped, weight, bias, out, meta>>

\* the launch is complete: the rest of forward
Return_softmax ==
    /\ pc = "launched"
    /\ kernel = "softmax"
    /\ ran = 0 .. meta.grid - 1
    /\ out' = softmax_post(y, meta.rows, meta.cols)
    /\ pc' = "returned"
    /\ UNCHANGED <<kernel, x, clamped, weight, bias, y, meta, ran, acc>>

CallSoftmax ==
    \E B \in 1 .. MaxRows, N \in 1 .. MaxCols, fill \in SoftmaxVals,
       v \in SoftmaxVals :
        \E at \in 0 .. B * N - 1 : TritonSoftmax_forward(B, N, fill, at, v)

(***************************************************************************)
(* layer_norm_kernel and TritonLayerNorm.forward                           *)
(***************************************************************************)
LN_BLOCK_SIZE == 128
LN_EPS == Frac(1, 10^5)
dim == 384

\* b + t / sqrt(v) for finite b, t # 0 and v > 0: a finite real kept in
\* closed form, since sqrt leaves the rationals
Surd(b, t, v) == [k |-> "surd", b |-> b, t |-> t, v |-> v]

\* 1.0 / tl.sqrt(v) where it is rational or not finite
rsqrt_special(v) ==
    IF IsPoison(v) THEN v
    ELSE IF v.k = "pinf" THEN Int2Q(0)
    ELSE IF v.k = "ninf" \/ v.s < 0 THEN NaN
    ELSE IF v.s = 0 THEN PosInf
    ELSE Int2Q(1)   \* v > 0: some positive finite number

\* (x_centered * rstd) * w + b with rstd = 1.0 / tl.sqrt(v)
ln_affine(x_centered, v, w, b) ==
    IF IsFin(v) /\ v.s > 0 /\ IsFin(x_centered) /\ IsFin(w) /\ IsFin(b)
    THEN LET t == QMul(x_centered, w)
         IN  IF t.s = 0 THEN b ELSE Surd(b, t, v)
    ELSE \* not finite: only which operand is infinite, NaN or unwritten counts
         QAdd(QMul(QMul(x_centered, rsqrt_special(v)), w), b)

\* mask = cols < N, by lane
layer_norm_mask(c, N) == c < N

\* a mean over all the lanes of the block
ln_mean_over_block(xs, N, BLOCK_SIZE) ==
    QDiv(tl_sum(xs, 0, BLOCK_SIZE - 1), Int2Q(BLOCK_SIZE))

\* mean = tl.sum(x, axis=0) / N
ln_mean(xs, N, BLOCK_SIZE) == QDiv(tl_sum(xs, 0, BLOCK_SIZE - 1), Int2Q(N))

\* var = tl.sum(x_centered * x_centered, axis=0) / N
ln_var(x_centered, N, BLOCK_SIZE) ==
    QDiv(tl_sum([c \in Lanes(BLOCK_SIZE) |->
                   LET d == x_centered[c] IN QMul(d, d)], 0, BLOCK_SIZE - 1),
         Int2Q(N))

\* one program instance: what it loads, what it stores where, its locals
layer_norm_kernel(x_buf, weight_buf, bias_buf, row_idx, N, eps, BLOCK_SIZE) ==
    LET cols == Lanes(BLOCK_SIZE)
        mask == [c \in cols |-> layer_norm_mask(c, N)]
        x_offset == [c \in cols |-> row_idx * N + c]
        xs == [c \in cols |->
                 IF mask[c] THEN tl_load(x_buf, x_offset[c]) ELSE Int2Q(0)]
        mean == ln_mean(xs, N, BLOCK_SIZE)
        x_centered == [c \in cols |-> QSub(xs[c], mean)]
        var == ln_var(x_centered, N, BLOCK_SIZE)
        v == QAdd(var, eps)
        w == [c \in cols |->
                IF mask[c] THEN tl_load(weight_buf, c) ELSE Int2Q(1)]
        b == [c \in cols |->
                IF mask[c] THEN tl_load(bias_buf, c) ELSE Int2Q(0)]
        on == {c \in cols : mask[c]}
    IN  [loads |-> {<<"x", x_offset[c]>> : c \in on}
                     \cup {<<"weight", c>> : c \in on}
                     \cup {<<"bias", c>> : c \in on},
         stores |-> [a \in {x_offset[c] : c \in on} |->
                       LET c == a - row_idx * N
                       IN  ln_affine(x_centered[c], v, w[c], b[c])],
         mean |-> mean, var |-> var]

\* the grid lambda of TritonLayerNorm.forward
layer_norm_grid(M, BLOCK_SIZE) == cdiv(M, BLOCK_SIZE)

\* the input tensors the model draws: element (r, c) of a [M, N] tensor
LNInput(base, step, N, a) ==
    Int2Q(base + step * (((a \div N) + (a % N)) % 3))
LNBases == {-1, 0, 2}
LNSteps == {0, 1}
\* parameters as constructed (ones, zeros) or as training has left them
LNWeight(trained, c) == IF trained THEN Int2Q((c % 2) + 1) ELSE Int2Q(1)
LNBias(trained, c) == IF trained THEN Int2Q((c % 3) - 1) ELSE Int2Q(0)

\* forward up to and including the launch, for a module whose
\* normalized_shape is (ns,), on a tensor of shape [M, last]
TritonLayerNorm_forward(ns, M, last, base, step, trained) ==
    /\ CanCall
    /\ x' = [a \in 0 .. (M * last) - 1 |-> LNInput(base, step, last, a)]
    /\ clamped' = <<>>
    /\ weight' = [c \in 0 .. ns - 1 |-> LNWeight(trained, c)]
    /\ bias' = [c \in 0 .. ns - 1 |-> LNBias(trained, c)]
    /\ kernel' = "layer_norm"
    /\ ran' = {}
    /\ acc' = <<>>
    /\ out' = <<>>
    /\ IF last # ns
       THEN \* the assert on x.shape
            /\ pc' = "raised"
            /\ y' = <<>>
            /\ meta' = NoMeta
       ELSE /\ pc' = "launched"
            /\ y' = [a \in 0 .. (M * ns) - 1 |-> Uninit]
            /\ meta' = [NoMeta EXCEPT !.rows = M, !.cols = ns, !.n = M * ns,
                                      !.block = LN_BLOCK_SIZE,
                                      !.grid =
                                          layer_norm_grid(M, LN_BLOCK_SIZE),
                                      !.eps = LN_EPS]

\* program instance row_idx of the layer-norm grid runs
Run_layer_norm_kernel(row_idx) ==
    /\ pc = "launched"
    /\ kernel = "layer_norm"
    /\ row_idx \in (0 .. meta.grid - 1) \ ran
    /\ LET r == layer_norm_kernel(x, weight, bias, row_idx, meta.cols,
                                  meta.eps, meta.block)
       IN  /\ y' = tl_store(y, r.stores)
           /\ acc' = Ran(row_idx, [r EXCEPT !.stores = DOMAIN r.stores])
    /\ ran' = ran \cup {row_idx}
    /\ UNCHANGED <<pc, kernel, x, clamped, weight, bias, out, meta>>

\* the launch is complete: forward returns y
Return_layer_norm ==
    /\ pc = "launched"
    /\ kernel = "layer_norm"
    /\ ran = 0 .. meta.grid - 1
    /\ pc' = "returned"
    /\ UNCHANGED <<kernel, x, clamped, weight, bias, y, out, meta, ran, acc>>

\* the shapes the model draws: few rows of any length, or many short rows
LNShapes ==
    {<<M, N>> : M \in 1 .. MaxRows,
                N \in (1 .. MaxCols) \cup {LN_BLOCK_SIZE, dim}}
    \cup {<<LN_BLOCK_SIZE + 1, N>> : N \in 1 .. MaxCols}

CallLayerNorm ==
    \E sh \in LNShapes, base \in LNBases, step \in LNSteps,
       trained \in BOOLEAN, match \in BOOLEAN :
        TritonLayerNorm_forward(IF match THEN sh[2] ELSE sh[2] + 1,
                                sh[1], sh[2], base, step, trained)

(***************************************************************************)
(* gelu_kernel and TritonGELU.forward                                      *)
(***************************************************************************)
GELU_BLOCK_SIZE == 1024
sqrt_2_over_pi ==
    Fin(1, BDec(<<7978, 8456, 802, 8654>>), BDec(<<1, 0, 0, 0, 0>>))
GELU_CUBIC == Frac(44715, 10^6)
GELU_HALF == Frac(5, 10)

\* the kernel's arithmetic on one lane
gelu(xv) ==
    LET coeff == QMul(sqrt_2_over_pi,
                      QAdd(Int2Q(1), QMul(QMul(GELU_CUBIC, xv), xv)))
        xc == QMul(xv, coeff)
    IN  QMul(QMul(GELU_HALF, xv),
             QAdd(Int2Q(1), QDiv(xc, QAdd(Int2Q(1), QAbs(xc)))))

\* offsets that leave the program id out
gelu_offsets_no_pid(pid, BLOCK_SIZE, l) == l

\* offsets = tl.program_id(0) * BLOCK_SIZE + tl.arange(0, BLOCK_SIZE), by lane
gelu_offsets(pid, BLOCK_SIZE, l) == pid * BLOCK_SIZE + l

\* mask = offsets < n_elements, by lane
gelu_mask(offset, n_elements) == offset < n_elements

\* one program instance: what it loads, and what it stores where.  The
\* lanes' arithmetic is done once for each distinct value loaded
gelu_kernel(x_buf, pid, n_elements, BLOCK_SIZE) ==
    LET offsets == [l \in Lanes(BLOCK_SIZE) |->
                      gelu_offsets(pid, BLOCK_SIZE, l)]
        mask == [l \in Lanes(BLOCK_SIZE) |->
                   gelu_mask(offsets[l], n_elements)]
        on == {l \in Lanes(BLOCK_SIZE) : mask[l]}
        xs == {tl_load(x_buf, offsets[l]) : l \in on}
        ys == {<<v, gelu(v)>> : v \in xs}
    IN  [loads |-> {<<"x", offsets[l]>> : l \in on},
         stores |-> [a \in {offsets[l] : l \in on} |->
                       (CHOOSE p \in ys : p[1] = tl_load(x_buf, a))[2]],
         mean |-> Int2Q(0), var |-> Int2Q(0)]

\* a grid of the whole tiles only
gelu_grid_floor(n_elements, BLOCK_SIZE) == n_elements \div BLOCK_SIZE

\* the grid lambda of TritonGELU.forward
gelu_grid(n_elements, BLOCK_SIZE) == cdiv(n_elements, BLOCK_SIZE)

GeluInput(shift, a) == Int2Q(((a + shift) % 5) - 2)
GeluShifts == {0, 1}

\* forward up to and including the launch, on a tensor of n_elements
TritonGELU_forward(n_elements, shift) ==
    /\ CanCall
    /\ x' = [a \in 0 .. n_elements - 1 |-> GeluInput(shift, a)]
    /\ clamped' = <<>>
    /\ y' = [a \in 0 .. n_elements - 1 |-> Uninit]
    /\ meta' = [NoMeta EXCEPT !.n = n_elements, !.block = GELU_BLOCK_SIZE,
                              !.grid = gelu_grid(n_elements, GELU_BLOCK_SIZE)]
    /\ kernel' = "gelu"
    /\ pc' = "launched"
    /\ ran' = {}
    /\ acc' = <<>>
    /\ out' = <<>>
    /\ UNCHANGED <<weight, bias>>

\* program instance pid of the GELU grid runs
Run_gelu_kernel(pid) ==
    /\ pc = "launched"
    /\ kernel = "gelu"
    /\ pid \in (0 .. meta.grid - 1) \ ran
    /\ LET r == gelu_kernel(x, pid, meta.n, meta.block)
       IN  /\ y' = tl_store(y, r.stores)
           /\ acc' = Ran(pid, [r EXCEPT !.stores = DOMAIN r.stores])
    /\ ran' = ran \cup {pid}
    /\ UNCHANGED <<pc, kernel, x, clamped, weight, bias, out, meta>>

\* the launch is complete: forward returns y
Return_gelu ==
    /\ pc = "launched"
    /\ kernel = "gelu"
    /\ ran = 0 .. meta.grid - 1
    /\ pc' = "returned"
    /\ UNCHANGED <<kernel, x, clamped, weight, bias, y, out, meta, ran, acc>>

\* element counts around the tile boundaries
GeluSizes ==
    {n \in {t * GELU_BLOCK_SIZE + d : t \in 0 .. MaxTiles, d \in {-1, 0, 1}} :
        n >= 1}

CallGelu ==
    \E n \in GeluSizes, shift \in GeluShifts : TritonGELU_forward(n, shift)

\* the caller is done with the call's tensors.  The next call is on any of
\* the model's module instances, with its parameters as they are by then
Release ==
    /\ pc \in {"returned", "raised"}
    /\ pc' = "idle"
    /\ kernel' = "none"
    /\ x' = <<>>
    /\ clamped' = <<>>
    /\ y' = <<>>
    /\ out' = <<>>
    /\ meta' = NoMeta
    /\ ran' = {}
    /\ acc' = <<>>
    /\ weight' = <<>>
    /\ bias' = <<>>


(***************************************************************************)
(* train and the checkpoint load of __main__                               *)
(***************************************************************************)
BATCHES_PER_EPOCH == 100
VAL_BATCHES == 50
SAVE_PATH == "checkpoints/checkpoints/nanoGPT_cpkt.pth"
LOAD_PATH == "checkpoints/nanoGPT_cpkt.pth"
Paths == {SAVE_PATH, LOAD_PATH}

\* weights: those this run has after so many optimizer steps, or those a file
\* left by an earlier run holds
Weights(steps) == [run |-> "this", steps |-> steps]
Stale == [run |-> "earlier", steps |-> 0]
Absent == [run |-> "none", steps |-> 0]

NoGrads == [holds |-> "none", of |-> 0]

\* the mean validation losses the model draws
ValLosses == {Int2Q(1), Int2Q(2), Int2Q(3), NaN}

\* the script before train is called (the state the kernel specification
\* leaves it in)
TIdle ==
    /\ tpc = "forward"
    /\ num_epochs = 1
    /\ epoch = 0
    /\ batch = 0
    /\ iter_num = 0
    /\ loss = "none"
    /\ nan_batches = 0
    /\ grads = NoGrads
    /\ params = Weights(0)
    /\ opt_state = 0
    /\ sched_epochs = 0
    /\ mode = "train"
    /\ val_batches = 0
    /\ best_val_loss = PosInf
    /\ val_losses = <<>>
    /\ epoch_params = <<>>
    /\ saved_epochs = <<>>
    /\ files = [p \in Paths |-> Absent]
    /\ have_dir = TRUE

\* train has run up to its loops, for some num_epochs and some file system
TInit ==
    /\ tpc = "forward"
    /\ num_epochs \in 1 .. MaxEpochs
    /\ epoch = 0
    /\ batch = 0
    /\ iter_num = 0
    /\ loss = "none"
    /\ nan_batches = 0
    /\ grads = NoGrads
    /\ params = Weights(0)
    /\ opt_state = 0
    /\ sched_epochs = 0
    /\ mode = "train"
    /\ val_batches = 0
    /\ best_val_loss = PosInf
    /\ val_losses = <<>>
    /\ epoch_params = <<>>
    /\ saved_epochs = <<>>
    /\ files \in [Paths -> {Absent, Stale}]
    /\ have_dir \in BOOLEAN
    /\ (~have_dir => files[SAVE_PATH] = Absent)

\* the inner loop's next iteration, or the statement after the loop
NextBatch == IF batch < BATCHES_PER_EPOCH THEN "forward" ELSE "sched"

\* lines 323-328: iter_num += 1, get_batch, the forward pass, the loss
Forward ==
    /\ tpc = "forward"
    /\ iter_num' = iter_num + 1
    /\ batch' = batch + 1
    /\ \E l \in {"finite", "nan"} :
        /\ l = "nan" => nan_batches < MaxNaNBatches
        /\ loss' = l
        /\ nan_batches' = IF l = "nan" THEN nan_batches + 1 ELSE nan_batches
    /\ tpc' = "isnan"
    /\ UNCHANGED <<num_epochs, epoch, grads, params, opt_state, sched_epochs,
                   mode, val_batches, best_val_loss, val_losses, epoch_params,
                   files, have_dir,
                   saved_epochs>>

\* a check that lets every batch through to the update
isnan_branch_no_skip(l) == "zero_grad"

\* lines 331-333: where the script goes after the check
isnan_branch(l) == IF l = "nan" THEN NextBatch ELSE "zero_grad"

IsNanCheck ==
    /\ tpc = "isnan"
    /\ tpc' = isnan_branch(loss)
    /\ UNCHANGED <<num_epochs, epoch, batch, iter_num, loss, nan_batches,
                   grads, params, opt_state, sched_epochs, mode, val_batches,
                   best_val_loss, val_losses, epoch_params, files, have_dir,
                   saved_epochs>>

\* line 335
ZeroGrad ==
    /\ tpc = "zero_grad"
    /\ grads' = [holds |-> "zeroed", of |-> iter_num]
    /\ tpc' = "backward"
    /\ UNCHANGED <<num_epochs, epoch, batch, iter_num, loss, nan_batches,
                   params, opt_state, sched_epochs, mode, val_batches,
                   best_val_loss, val_losses, epoch_params, files, have_dir,
                   saved_epochs>>

\* line 336
Backward ==
    /\ tpc = "backward"
    /\ grads' = [holds |-> "gradient", of |-> iter_num]
    /\ tpc' = "clip"
    /\ UNCHANGED <<num_epochs, epoch, batch, iter_num, loss, nan_batches,
                   params, opt_state, sched_epochs, mode, val_batches,
                   best_val_loss, val_losses, epoch_params, files, have_dir,
                   saved_epochs>>

\* line 337
ClipGradNorm ==
    /\ tpc = "clip"
    /\ grads' = [holds |-> "clipped", of |-> iter_num]
    /\ tpc' = "step"
    /\ UNCHANGED <<num_epochs, epoch, batch, iter_num, loss, nan_batches,
                   params, opt_state, sched_epochs, mode, val_batches,
                   best_val_loss, val_losses, epoch_params, files, have_dir,
                   saved_epochs>>

\* line 338
OptimizerStep ==
    /\ tpc = "step"
    /\ params' = Weights(params.steps + 1)
    /\ opt_state' = opt_state + 1
    /\ tpc' = "stats"
    /\ UNCHANGED <<num_epochs, epoch, batch, iter_num, loss, nan_batches,
                   grads, sched_epochs, mode, val_batches, best_val_loss,
                   val_losses, epoch_params, files, have_dir,
                   saved_epochs>>

\* lines 340-348: timing and the progress line
Stats ==
    /\ tpc = "stats"
    /\ tpc' = NextBatch
    /\ UNCHANGED <<num_epochs, epoch, batch, iter_num, loss, nan_batches,
                   grads, params, opt_state, sched_epochs, mode, val_batches,
                   best_val_loss, val_losses, epoch_params, files, have_dir,
                   saved_epochs>>

\* lines 350-354: scheduler.step(), model.eval(), val_loss = 0
SchedulerStep ==
    /\ tpc = "sched"
    /\ sched_epochs' = sched_epochs + 1
    /\ mode' = "eval"
    /\ val_batches' = 0
    /\ tpc' = "validate"
    /\ UNCHANGED <<num_epochs, epoch, batch, iter_num, loss, nan_batches,
                   grads, params, opt_state, best_val_loss, val_losses,
                   epoch_params, files, have_dir,
                   saved_epochs>>

\* lines 356-359: one validation batch, under no_grad
ValidationBatch ==
    /\ tpc = "validate"
    /\ val_batches < VAL_BATCHES
    /\ val_batches' = val_batches + 1
    /\ UNCHANGED <<tpc, num_epochs, epoch, batch, iter_num, loss, nan_batches,
                   grads, params, opt_state, sched_epochs, mode,
                   best_val_loss, val_losses, epoch_params, files, have_dir,
                   saved_epochs>>

\* lines 360-362: the mean of the validation losses, appended
ValidationDone ==
    /\ tpc = "validate"
    /\ val_batches = VAL_BATCHES
    /\ \E val_loss \in ValLosses : val_losses' = Append(val_losses, val_loss)
    /\ epoch_params' = Append(epoch_params, params)
    /\ tpc' = "checkpoint"
    /\ UNCHANGED <<num_epochs, epoch, batch, iter_num, loss, nan_batches,
                   grads, params, opt_state, sched_epochs, mode, val_batches,
                   best_val_loss, files, have_dir,
                   saved_epochs>>

\* line 364
is_best(val_loss, best) == QLt(val_loss, best)

\* the file torch.save writes
save_path == SAVE_PATH

\* the file torch.load reads
load_path == LOAD_PATH

\* lines 364-369 and the outer loop's step: the checkpoint, model.train()
Checkpoint ==
    /\ tpc = "checkpoint"
    /\ LET val_loss == val_losses[Len(val_losses)]
           save == is_best(val_loss, best_val_loss)
       IN  IF save /\ ~have_dir
           THEN \* torch.save cannot open the file
                /\ tpc' = "save_error"
                /\ best_val_loss' = val_loss
                /\ UNCHANGED <<files, saved_epochs, mode, epoch, batch>>
           ELSE /\ best_val_loss' = IF save THEN val_loss ELSE best_val_loss
                /\ files' = IF save THEN [files EXCEPT ![save_path] = params]
                            ELSE files
                /\ saved_epochs' = IF save THEN Append(saved_epochs, epoch + 1)
                                   ELSE saved_epochs
                /\ mode' = "train"
                /\ epoch' = epoch + 1
                /\ batch' = 0
                /\ tpc' = IF epoch + 1 < num_epochs THEN "forward" ELSE "load"
    /\ UNCHANGED <<num_epochs, iter_num, loss, nan_batches, grads, params,
                   opt_state, sched_epochs, val_batches, val_losses,
                   epoch_params, have_dir>>

\* line 411: model.load_state_dict(torch.load(...))
LoadCheckpoint ==
    /\ tpc = "load"
    /\ IF files[load_path] = Absent
       THEN /\ tpc' = "load_error"
            /\ UNCHANGED params
       ELSE /\ tpc' = "loaded"
            /\ params' = files[load_path]
    /\ UNCHANGED <<num_epochs, epoch, batch, iter_num, loss, nan_batches,
                   grads, opt_state, sched_epochs, mode, val_batches,
                   best_val_loss, val_losses, epoch_params, files, have_dir,
                   saved_epochs>>

Init == KInit /\ TIdle

Next ==
    \/ CallSoftmax /\ UNCHANGED tvars
    \/ (\E p \in 0 .. meta.grid - 1 : Run_softmax_kernel(p)) /\ UNCHANGED tvars
    \/ Return_softmax /\ UNCHANGED tvars
    \/ CallLayerNorm /\ UNCHANGED tvars
    \/ (\E p \in 0 .. meta.grid - 1 : Run_layer_norm_kernel(p))
       /\ UNCHANGED tvars
    \/ Return_layer_norm /\ UNCHANGED tvars
    \/ CallGelu /\ UNCHANGED tvars
    \/ (\E p \in 0 .. meta.grid - 1 : Run_gelu_kernel(p)) /\ UNCHANGED tvars
    \/ Return_gelu /\ UNCHANGED tvars
    \/ Release /\ UNCHANGED tvars

\* the wrappers and their kernels
Spec == Init /\ [][Next]_vars

(***************************************************************************)
(* The kernels' properties                                                 *)
(***************************************************************************)
\* what program instance p of the current launch does
Program(p) ==
    CASE kernel = "softmax" ->
           softmax_kernel(clamped, p, meta.cols, meta.cols, meta.cols,
                          meta.block)
      [] kernel = "layer_norm" ->
           layer_norm_kernel(x, weight, bias, p, meta.cols, meta.eps,
                             meta.block)
      [] kernel = "gelu" -> gelu_kernel(x, p, meta.n, meta.block)

\* the entries of row r of the [.., N] tensor t are all equal
RowAllEqual(t, r, N) == \A c \in 0 .. N - 1 : QEq(t[r * N + c], t[r * N])

\* the mean and the variance of the N elements of row r of t
RowMean(t, r, N) == QDiv(RowSum(t, r, N), Int2Q(N))

RowVariance(t, r, N) ==
    LET m == RowMean(t, r, N)
        sq == [c \in 0 .. N - 1 |->
                 LET d == QSub(t[r * N + c], m) IN QMul(d, d)]
    IN  QDiv(tl_sum(sq, 0, N - 1), Int2Q(N))

\* C1: when TritonLayerNorm.forward's launch is complete, one program
\* instance has run for each of the M rows (indices 0..M-1) and every one of
\* the M*N elements of the output holds its own row's normalized value:
\* none is left as torch.empty_like allocated it.
C1_EveryRowWritten ==
    (kernel = "layer_norm" /\ pc = "returned") =>
        /\ ran = 0 .. meta.rows - 1
        /\ \A a \in DOMAIN y : y[a].k # "uninit"
        /\ \A r \in 0 .. meta.rows - 1 :
             LET k == Program(r)
             IN  \A c \in 0 .. meta.cols - 1 :
                     LET a == r * meta.cols + c
                     IN  a \in DOMAIN k.stores /\ y[a] = k.stores[a]

\* C2: a row kernel is never launched with a block smaller than the row:
\* TritonLayerNorm.forward on rows longer than its BLOCK_SIZE of 128 (such
\* as dim = 384) raises before any launch, and produces no output.
C2_SmallBlockFailsFast ==
    /\ (kernel = "layer_norm" /\ Cardinality(DOMAIN weight) > LN_BLOCK_SIZE)
           => (pc = "raised" /\ ran = {} /\ DOMAIN y = {})
    /\ (kernel \in {"softmax", "layer_norm"} /\ pc \in {"launched", "returned"})
           => meta.block >= meta.cols

\* C3: for every row layer_norm_kernel has processed with BLOCK_SIZE >= N,
\* the variance it divides by is the sum over the row's N valid elements of
\* (x - mean)^2, divided by N: the masked lanes add nothing to it.
C3_VarianceOfValidElements ==
    (kernel = "layer_norm" /\ meta.block >= meta.cols) =>
        \A p \in ran :
            /\ QEq(acc[p].mean, RowMean(x, p, meta.cols))
            /\ QEq(acc[p].var, RowVariance(x, p, meta.cols))

\* C4: every row whose entries are all equal after the clamp to [-100, 100]
\* comes back from TritonSoftmax.forward finite and free of NaN, with every
\* entry the same, equal to 1/N, and the entries summing to 1.
C4_EqualRowIsUniform ==
    (kernel = "softmax" /\ pc = "returned") =>
        \A r \in 0 .. meta.rows - 1 :
            RowAllEqual(clamped, r, meta.cols) =>
                /\ \A c \in 0 .. meta.cols - 1 :
                      LET v == out[r * meta.cols + c]
                      IN  /\ IsFin(v)
                          /\ QEq(v, out[r * meta.cols])
                          /\ QEq(v, Frac(1, meta.cols))
                /\ QEq(RowSum(out, r, meta.cols), Int2Q(1))

\* forward has returned on a tensor with a row of three -inf
C4_Witness ==
    /\ kernel = "softmax"
    /\ pc = "returned"
    /\ meta.cols = 3
    /\ \E r \in 0 .. meta.rows - 1 :
          /\ \A c \in 0 .. 2 : x[r * 3 + c] = NegInf
          /\ \A c \in 0 .. 2 : QEq(out[r * 3 + c], Frac(1, 3))

\* C5: for every row layer_norm_kernel has processed whose N valid elements
\* are all equal, with eps > 0 and BLOCK_SIZE >= N, the value at each valid
\* column is that column's bias exactly, and var + eps, whose square root
\* the kernel divides by, is finite and positive (the masked lanes included).
C5_EqualRowGivesBias ==
    (kernel = "layer_norm" /\ meta.block >= meta.cols /\ meta.eps.s > 0) =>
        \A p \in ran :
            RowAllEqual(x, p, meta.cols) =>
                /\ LET v == QAdd(acc[p].var, meta.eps)
                   IN  IsFin(v) /\ v.s > 0
                /\ \A c \in 0 .. meta.cols - 1 :
                      LET v == y[p * meta.cols + c]
                      IN  IsFin(v) /\ QEq(v, bias[c])

\* a row of equal non-zero elements, shorter than the block, has been
\* processed: the masked lanes made the kernel's variance positive, and the
\* bias is not zero everywhere
C5_Witness ==
    /\ kernel = "layer_norm"
    /\ meta.cols \in 2 .. meta.block - 1
    /\ \E p \in ran :
          /\ RowAllEqual(x, p, meta.cols)
          /\ x[p * meta.cols].s # 0
          /\ acc[p].var.s > 0
          /\ \E c \in 0 .. meta.cols - 1 :
                bias[c].s # 0 /\ QEq(y[p * meta.cols + c], bias[c])

\* address a of buffer buf, touched by program instance p, is inside the
\* buffer's valid extent
InExtent(p, buf, a) ==
    CASE kernel = "gelu" -> a >= 0 /\ a < meta.n /\ a \in DOMAIN x
      [] buf \in {"weight", "bias"} ->
           a >= 0 /\ a < meta.cols /\ a \in DOMAIN weight /\ a \in DOMAIN bias
      [] OTHER ->
           /\ p < meta.rows
           /\ a >= p * meta.cols
           /\ a - p * meta.cols < meta.cols
           /\ a \in DOMAIN x
           /\ a \in DOMAIN y

\* C6: in every launch of the three wrappers, every address a program
\* instance of the grid has loaded or stored is inside its buffer's valid
\* extent (row < rows and column < row length for the row kernels and for
\* weight and bias, offset < n_elements for GELU): no lane beyond it stores.
C6_AccessesInExtent ==
    \A p \in ran :
        /\ p \in 0 .. meta.grid - 1
        /\ \A ld \in acc[p].loads : InExtent(p, ld[1], ld[2])
        /\ \A a \in acc[p].stores : InExtent(p, "y", a)

\* both rows of a [2, 3] tensor have gone through softmax_kernel, whose
\* block of 4 has a lane beyond each row
C6_Witness ==
    /\ kernel = "softmax"
    /\ meta.rows = 2
    /\ meta.cols = 3
    /\ meta.block = 4
    /\ ran = {0, 1}
    /\ acc[0].stores = {0, 1, 2}
    /\ acc[1].stores = {3, 4, 5}

\* C7: TritonGELU.forward launches ceil(n_elements / 1024) program
\* instances; instance p touches offsets p*1024 .. p*1024+1023 only and none
\* at or above n_elements; when the launch is complete each index below
\* n_elements has been written by exactly one instance, from the input at
\* the same index.
C7_GeluWritesEachIndexOnce ==
    (kernel = "gelu") =>
        /\ meta.grid * GELU_BLOCK_SIZE >= meta.n
        /\ (meta.grid - 1) * GELU_BLOCK_SIZE < meta.n
        /\ \A p \in ran :
              /\ acc[p].stores \subseteq
                     (p * GELU_BLOCK_SIZE) .. (p * GELU_BLOCK_SIZE
                                               + GELU_BLOCK_SIZE - 1)
              /\ acc[p].stores \subseteq 0 .. meta.n - 1
              /\ acc[p].loads = {<<"x", a>> : a \in acc[p].stores}
        /\ pc = "returned" =>
              /\ \A a \in 0 .. meta.n - 1 :
                    Cardinality({p \in ran : a \in acc[p].stores}) = 1
              /\ LET ys == {<<v, gelu(v)>> : v \in {x[a] : a \in DOMAIN x}}
                 IN  \A a \in 0 .. meta.n - 1 : <<x[a], y[a]>> \in ys

\* forward has returned on 1025 elements: two instances, the second with a
\* single lane on
C7_Witness ==
    /\ kernel = "gelu"
    /\ pc = "returned"
    /\ meta.n = GELU_BLOCK_SIZE + 1
    /\ ran = {0, 1}
    /\ acc[1].stores = {GELU_BLOCK_SIZE}
    /\ y[GELU_BLOCK_SIZE].k = "fin"

\* the output buffer after the instances of S have run one after another,
\* lowest index first, on buf
RECURSIVE InOrder(_, _)
InOrder(S, buf) ==
    IF S = {} THEN buf
    ELSE LET p == CHOOSE q \in S : \A r \in S : q <= r
         IN  InOrder(S \ {p}, tl_store(buf, Program(p).stores))

\* C8: for each of the three kernels, no two program instances store to the
\* same output address, no instance loads from the buffer the launch stores
\* to, and whatever the order in which instances have run, the output buffer
\* holds what running them one after another in index order leaves.
C8_OrderIndependent ==
    (pc \in {"launched", "returned"}) =>
        /\ \A p \in ran : \A q \in ran \ {p} :
              /\ acc[p].stores \cap acc[q].stores = {}
              /\ \A ld \in acc[p].loads : ld[1] \in {"x", "weight", "bias"}
        /\ y = InOrder(ran, [a \in DOMAIN y |-> Uninit])

\* of a GELU grid of three, the last instance and the first have run and
\* the middle one has not
C8_Witness ==
    /\ kernel = "gelu"
    /\ pc = "launched"
    /\ meta.grid = 3
    /\ ran = {0, 2}
    /\ y[0].k = "fin"
    /\ y[GELU_BLOCK_SIZE].k = "uninit"
    /\ y[2 * GELU_BLOCK_SIZE].k = "fin"

TrainInit == KInit /\ TInit

TrainNext ==
    \/ Forward /\ UNCHANGED kvars
    \/ IsNanCheck /\ UNCHANGED kvars
    \/ ZeroGrad /\ UNCHANGED kvars
    \/ Backward /\ UNCHANGED kvars
    \/ ClipGradNorm /\ UNCHANGED kvars
    \/ OptimizerStep /\ UNCHANGED kvars
    \/ Stats /\ UNCHANGED kvars
    \/ SchedulerStep /\ UNCHANGED kvars
    \/ ValidationBatch /\ UNCHANGED kvars
    \/ ValidationDone /\ UNCHANGED kvars
    \/ Checkpoint /\ UNCHANGED kvars
    \/ LoadCheckpoint /\ UNCHANGED kvars

\* the training script
TrainSpec == TrainInit /\ [][TrainNext]_vars

(***************************************************************************)
(* The training loop's properties                                          *)
(***************************************************************************)
\* the statements of train's loops (the script has not left train)
InTrain == tpc \in {"forward", "isnan", "zero_grad", "backward", "clip",
                    "step", "stats", "sched", "validate", "checkpoint"}

\* the current batch's loss is NaN and the next batch has not begun
NaNBatchPending == loss = "nan" /\ InTrain /\ tpc # "forward"

\* C9: a batch whose loss is NaN leaves the gradients, the parameters and
\* the optimizer state as they were until the next batch begins, and the
\* loop goes on to the next batch (or to the end of the epoch) instead of
\* stopping; the parameters and the optimizer state change only in a batch
\* whose loss is not NaN, after that batch's own zero_grad, backward pass
\* and gradient clipping.
C9_NaNBatchIsSkipped ==
    [][ /\ NaNBatchPending =>
            /\ grads' = grads
            /\ params' = params
            /\ opt_state' = opt_state
        /\ (tpc = "isnan" /\ loss = "nan") =>
            /\ tpc' \in {"forward", "sched"}
            /\ tpc' = "forward" <=> batch < BATCHES_PER_EPOCH
        /\ (InTrain /\ (params' # params \/ opt_state' # opt_state)) =>
            /\ loss = "finite"
            /\ grads = [holds |-> "clipped", of |-> iter_num]
      ]_vars

\* after some optimizer steps a batch with a NaN loss was skipped, and the
\* next batch is about to begin with the optimizer where it was
C9_Witness ==
    /\ tpc = "forward"
    /\ loss = "nan"
    /\ batch > 0
    /\ opt_state > 0
    /\ opt_state = iter_num - nan_batches
    /\ params = Weights(opt_state)

\* epoch e (from 1) had a validation loss below that of every epoch before
\* (a NaN loss is no loss seen: nothing is below it and it is below nothing)
StrictlyBest(e) ==
    /\ QLt(val_losses[e], PosInf)
    /\ \A j \in 1 .. e - 1 :
         val_losses[j].k # "nan" => QLt(val_losses[e], val_losses[j])

\* the last epoch whose validation loss was the best so far (0 if none)
BestEpoch ==
    LET best == {e \in 1 .. Len(val_losses) : StrictlyBest(e)}
    IN  IF best = {} THEN 0 ELSE CHOOSE e \in best : \A f \in best : f <= e

\* C10: a checkpoint is written at the end of exactly those epochs whose
\* validation loss is strictly below the best seen before, and once training
\* is over the script loads the weights of the best-validation epoch: the
\* load succeeds and reads what the last save of this run wrote (whenever
\* some epoch of the run had a best validation loss and so saved).
C10_LoadsBestCheckpoint ==
    /\ \A e \in 1 .. epoch :
          (\E i \in 1 .. Len(saved_epochs) : saved_epochs[i] = e)
              <=> StrictlyBest(e)
    /\ (tpc \in {"loaded", "load_error"} /\ BestEpoch > 0) =>
          /\ tpc = "loaded"
          /\ load_path = save_path
          /\ params = epoch_params[BestEpoch]
====
